---- MODULE Spec2Model ----
(***************************************************************************)
(* Model of the OCR text normaliser (ocr_process/text_cleaner.py), the     *)
(* side-by-side CSV exporter (ocr_process/save_to_csv.py) and the batch    *)
(* driver run_pipeline (main.py, streamlit_app.py).                        *)
(*                                                                         *)
(* A Python str is a sequence of one-character strings; a Python list of   *)
(* str is a sequence of such sequences.  The only white-space characters   *)
(* of the model's alphabet are " " and "\n"; the only line break is "\n".  *)
(***************************************************************************)
EXTENDS Integers, Sequences, FiniteSets, TLC

VARIABLES
    cpc,             \* position inside clean_text
    text_x,          \* clean_text argument text_x
    text_y,          \* clean_text argument text_y
    lines_y,         \* text_cleaner.py:20
    data_lines_y,    \* text_cleaner.py:21
    cleaned_text_y,  \* text_cleaner.py:22, reassigned at :25
    matches_y,       \* text_cleaner.py:28
    processed_y,     \* text_cleaner.py:30
    processed_x,     \* text_cleaner.py:37
    spc,             \* position inside save_side_by_side_csv
    heap,            \* the list objects: heap[r] is the content of list r
    data_dict,       \* argument data_dict (ocr_results of run_pipeline), in insertion order
    output_filename, \* argument output_filename, as path components
    paired_data,     \* save_to_csv.py:23, in insertion order
    v_data,          \* save_to_csv.py:50
    h_data,          \* save_to_csv.py:51
    group_index,     \* number of groups the detail loop has rendered
    fs_dirs,         \* file system: the directories that exist
    fs_file,         \* file system: the file at output_filename
    fs_env,          \* file system: what the volume lets the call do
    exc,             \* the exception that has been raised, "none" before
    ppc,             \* position inside run_pipeline
    image_files,     \* argument image_files of run_pipeline
    photo_index      \* number of photos the loop of run_pipeline has taken

cleanVars == <<cpc, text_x, text_y, lines_y, data_lines_y, cleaned_text_y,
               matches_y, processed_y, processed_x>>

saveVars == <<spc, heap, data_dict, output_filename, paired_data, v_data,
              h_data, group_index, fs_dirs, fs_file, fs_env, exc>>

pipeVars == <<ppc, image_files, photo_index>>

vars == <<cleanVars, saveVars, pipeVars>>

----------------------------------------------------------------------------
(* Bounds *)

\* longest recognised text, in lines, handed to clean_text
MaxLines == 3

\* most entries of a result map handed to save_side_by_side_csv
MaxEntries == 2

\* longest base name of a photo stem, in characters
MaxBaseLen == 1

\* most rows a volume with a quota accepts
MaxQuota == 11

\* most photos of a batch handed to run_pipeline
MaxPhotos == 2

----------------------------------------------------------------------------
(* Character classes and str methods *)

Digits == {"0", "1", "2", "3", "4", "5", "6", "7", "8", "9"}

\* str.isspace / regex \s, restricted to the alphabet of the model
IsSpace(c) == c \in {" ", "\n"}

IsDigit(c) == c \in Digits

RECURSIVE LStrip(_)
LStrip(s) ==
    IF s = <<>> THEN s
    ELSE IF IsSpace(Head(s)) THEN LStrip(Tail(s)) ELSE s

RECURSIVE RStrip(_)
RStrip(s) ==
    IF s = <<>> THEN s
    ELSE IF IsSpace(s[Len(s)]) THEN RStrip(SubSeq(s, 1, Len(s) - 1)) ELSE s

\* str.strip()
Strip(s) == RStrip(LStrip(s))

\* str.splitlines(): a trailing line break opens no further line
RECURSIVE SplitFrom(_, _)
SplitFrom(s, cur) ==
    IF s = <<>> THEN (IF cur = <<>> THEN <<>> ELSE <<cur>>)
    ELSE IF Head(s) = "\n" THEN <<cur>> \o SplitFrom(Tail(s), <<>>)
    ELSE SplitFrom(Tail(s), Append(cur, Head(s)))

SplitLines(s) == SplitFrom(s, <<>>)

\* '\n'.join(lines)
RECURSIVE JoinLines(_)
JoinLines(ls) ==
    IF ls = <<>> THEN <<>>
    ELSE IF Len(ls) = 1 THEN ls[1]
    ELSE ls[1] \o <<"\n">> \o JoinLines(Tail(ls))

\* first index >= i of s that holds no white space (Len(s)+1 when none)
RECURSIVE SkipSpace(_, _)
SkipSpace(s, i) ==
    IF i > Len(s) THEN i
    ELSE IF IsSpace(s[i]) THEN SkipSpace(s, i + 1) ELSE i

\* first index >= i of s that holds no digit (Len(s)+1 when none)
RECURSIVE SkipDigits(_, _)
SkipDigits(s, i) ==
    IF i > Len(s) THEN i
    ELSE IF IsDigit(s[i]) THEN SkipDigits(s, i + 1) ELSE i

\* regex ^ under re.MULTILINE
AtLineStart(s, i) == i = 1 \/ s[i - 1] = "\n"

----------------------------------------------------------------------------
(* clean_text, Y field *)

\* lines_y[2:] if len(lines_y) > 2 else lines_y
DataLines(ls) == IF Len(ls) > 2 THEN SubSeq(ls, 3, Len(ls)) ELSE ls

\* re.sub(r'^\s*=\s*', '-', s, flags=re.MULTILINE)
RECURSIVE SubFrom(_, _)
SubFrom(s, i) ==
    IF i > Len(s) THEN <<>>
    ELSE LET j == SkipSpace(s, i)
         IN  IF AtLineStart(s, i) /\ j <= Len(s) /\ s[j] = "="
             THEN <<"-">> \o SubFrom(s, SkipSpace(s, j + 1))
             ELSE <<s[i]>> \o SubFrom(s, i + 1)

SubEquals(s) == SubFrom(s, 1)

\* re.findall(r'-?\d+\.\d+', s)
RECURSIVE FindYFrom(_, _)
FindYFrom(s, i) ==
    IF i > Len(s) THEN <<>>
    ELSE LET d  == IF s[i] = "-" THEN i + 1 ELSE i
             e1 == SkipDigits(s, d)
             e2 == SkipDigits(s, e1 + 1)
         IN  IF e1 > d /\ e1 <= Len(s) /\ s[e1] = "." /\ e2 > e1 + 1
             THEN <<SubSeq(s, i, e2 - 1)>> \o FindYFrom(s, e2)
             ELSE FindYFrom(s, i + 1)

FindAllY(s) == FindYFrom(s, 1)

\* index of the '.' of a token
RECURSIVE DotIndex(_, _)
DotIndex(t, i) ==
    IF i > Len(t) THEN i
    ELSE IF t[i] = "." THEN i ELSE DotIndex(t, i + 1)

\* match.split('.')[1] raises IndexError when the token holds no '.', and
\* int() of it raises ValueError unless it is a non-empty run of digits
TokenRaises(t) ==
    LET dot == DotIndex(t, 1)
    IN  IF dot > Len(t) THEN "IndexError"
        ELSE IF dot = Len(t) \/ \E k \in (dot + 1)..Len(t) : ~IsDigit(t[k])
             THEN "ValueError"
             ELSE "none"

\* the exception the comprehension over the matches leaves with ("none"
\* when every match passes the conversion)
RECURSIVE SelectRaises(_)
SelectRaises(ms) ==
    IF ms = <<>> THEN "none"
    ELSE IF TokenRaises(Head(ms)) # "none" THEN TokenRaises(Head(ms))
         ELSE SelectRaises(Tail(ms))

\* int(match.split('.')[1]) != 0
NonZeroFraction(t) ==
    \E k \in (DotIndex(t, 1) + 1)..Len(t) : t[k] # "0"

\* processed_y = matches_y: the comprehension without its condition
SelectTokensKeepAll(ms) == ms

RECURSIVE SelectTokens(_)
SelectTokens(ms) ==
    IF ms = <<>> THEN <<>>
    ELSE IF NonZeroFraction(Head(ms))
         THEN <<Head(ms)>> \o SelectTokens(Tail(ms))
         ELSE SelectTokens(Tail(ms))

\* the Y half of clean_text as a function of its argument
CleanY(ty) ==
    SelectTokens(FindAllY(SubEquals(JoinLines(DataLines(SplitLines(Strip(ty)))))))

----------------------------------------------------------------------------
(* clean_text, X field *)

\* re.findall(r'^(\d+(?:\.\d+)?)', s, flags=re.MULTILINE)
RECURSIVE FindXFrom(_, _)
FindXFrom(s, i) ==
    IF i > Len(s) THEN <<>>
    ELSE LET e1 == SkipDigits(s, i)
             e2 == SkipDigits(s, e1 + 1)
             e  == IF e1 <= Len(s) /\ s[e1] = "." /\ e2 > e1 + 1 THEN e2 ELSE e1
         IN  IF AtLineStart(s, i) /\ e1 > i
             THEN <<SubSeq(s, i, e - 1)>> \o FindXFrom(s, e)
             ELSE FindXFrom(s, i + 1)

FindAllX(s) == FindXFrom(s, 1)

DigitVal(c) == CHOOSE n \in 0..9 : <<"0", "1", "2", "3", "4", "5", "6", "7", "8", "9">>[n + 1] = c

DigitChar(n) == <<"0", "1", "2", "3", "4", "5", "6", "7", "8", "9">>[n + 1]

RECURSIVE Pow10(_)
Pow10(k) == IF k = 0 THEN 1 ELSE 10 * Pow10(k - 1)

\* int() of a digit string (0 for the empty one)
RECURSIVE DigitsToInt(_)
DigitsToInt(ds) ==
    IF ds = <<>> THEN 0
    ELSE 10 * DigitsToInt(SubSeq(ds, 1, Len(ds) - 1)) + DigitVal(ds[Len(ds)])

\* str() of a natural number
RECURSIVE IntToDigits(_)
IntToDigits(n) ==
    IF n < 10 THEN <<DigitChar(n)>>
    ELSE Append(IntToDigits(n \div 10), DigitChar(n % 10))

\* float(val) * 1000 in thousandths, as the 3-decimal formatting rounds it.
\* With at most 6 fraction digits the product is a whole number of
\* thousandths and the result is exact; beyond that it is rounded to nearest.
Thousandths(val) ==
    LET dot  == DotIndex(val, 1)
        ip   == SubSeq(val, 1, dot - 1)
        fp   == SubSeq(val, dot + 1, Len(val))
        k    == Len(fp)
        n    == DigitsToInt(ip \o fp)
    IN  IF k <= 6 THEN n * Pow10(6 - k)
        ELSE (n + (Pow10(k - 6) \div 2)) \div Pow10(k - 6)

\* f"{value:.3f}"
Format3f(n) ==
    LET f == n % 1000
    IN  IntToDigits(n \div 1000) \o <<".">> \o
        <<DigitChar(f \div 100), DigitChar((f \div 10) % 10), DigitChar(f % 10)>>

\* str.rstrip(c) for a single character c
RECURSIVE RStripChar(_, _)
RStripChar(s, c) ==
    IF s = <<>> THEN s
    ELSE IF s[Len(s)] = c THEN RStripChar(SubSeq(s, 1, Len(s) - 1), c) ELSE s

\* f"{value:.3f}".rstrip('0'): the decimal point of a whole number stays
FormatXKeepPoint(val) == RStripChar(Format3f(Thousandths(val)), "0")

\* f"{value:.3f}".rstrip('0').rstrip('.')
FormatX(val) == RStripChar(RStripChar(Format3f(Thousandths(val)), "0"), ".")

RECURSIVE MapFormatX(_)
MapFormatX(ms) ==
    IF ms = <<>> THEN <<>> ELSE <<FormatX(Head(ms))>> \o MapFormatX(Tail(ms))

\* the X half of clean_text as a function of its argument
CleanX(tx) == MapFormatX(FindAllX(tx))

----------------------------------------------------------------------------
(* Recognised texts handed to clean_text *)

SeqsUpTo(S, n) == UNION {[1..k -> S] : k \in 0..n}

\* lines the recogniser reports for the Y region
YLines ==
    { <<>>,
      <<"H">>,
      <<"1", ".", "5">>,
      <<"=", "2", ".", "5">>,
      <<" ", "=", " ", "3", ".", "5">>,
      <<"=">>,
      <<"4", ".", "0", "0", "0">>,
      <<"-", "6", ".", "2", "5">>,
      <<"1", ".", "5", "0">> }

\* lines the recogniser reports for the X region
XLines ==
    { <<>>,
      <<"1", "2", ".", "5">>,
      <<"3", ".", "0">>,
      <<"a", "b", "c">>,
      <<"7", ".", "2", "5">>,
      <<" ", "1">>,
      <<"-", "2">>,
      <<"5", ".">>,
      <<"0", ".", "0", "6", "2", "5">>,
      <<"1", ".", "2", "3", "4", "5", "6", "7", "8">> }

\* _extract_process: image_to_string(...).strip()
ExtractProcess(raw) == Strip(raw)

YTexts == {ExtractProcess(JoinLines(ls)) : ls \in SeqsUpTo(YLines, MaxLines)}

XTexts == {ExtractProcess(JoinLines(ls)) : ls \in SeqsUpTo(XLines, MaxLines)}

----------------------------------------------------------------------------
(* save_to_csv.py: values, list objects and ensure_list *)

\* a value stored under 'X' or 'Y': a reference to a list object, None
\* (also what dict.get returns for a missing key), or any other object
ListVal(r) == [t |-> "list", ref |-> r, v |-> <<>>]

NoneVal == [t |-> "none", ref |-> 0, v |-> <<>>]

ScalarVal(x) == [t |-> "scalar", ref |-> 0, v |-> x]

\* ensure_list(val) in heap h: the list it returns and the heap afterwards.
\* A list is returned as the same object; the two other branches build one.
ensure_list(h, val) ==
    IF val.t = "list" THEN [heap |-> h, ref |-> val.ref]
    ELSE IF val.t = "none" THEN [heap |-> Append(h, <<>>), ref |-> Len(h) + 1]
    ELSE [heap |-> Append(h, <<val.v>>), ref |-> Len(h) + 1]

\* [""] * n (empty for n <= 0)
Blanks(n) == IF n <= 0 THEN <<>> ELSE [i \in 1..n |-> <<>>]

\* lst += [""] * (n - 1): one placeholder short
PadListOneShort(h, r, n) == [h EXCEPT ![r] = h[r] \o Blanks(n - 1)]

\* lst += [""] * n on list object r
PadList(h, r, n) == [h EXCEPT ![r] = h[r] \o Blanks(n)]

MaxOf(a, b) == IF a >= b THEN a ELSE b

MinOf(a, b) == IF a <= b THEN a ELSE b

----------------------------------------------------------------------------
(* save_to_csv.py:22-35, grouping by orientation suffix *)

\* index of the last '_' of s, 0 when it has none
RECURSIVE LastUnderscore(_, _)
LastUnderscore(s, i) ==
    IF i = 0 THEN 0
    ELSE IF s[i] = "_" THEN i ELSE LastUnderscore(s, i - 1)

\* image_stem.split('_', 1): the split at the first '_' instead of the last
RSplitStemAtFirst(s) ==
    LET k == CHOOSE k \in 0..Len(s) :
                 /\ (k # 0 => s[k] = "_")
                 /\ \A m \in 1..(IF k = 0 THEN Len(s) ELSE k - 1) : s[m] # "_"
    IN  IF k = 0 THEN <<s>>
        ELSE <<SubSeq(s, 1, k - 1), SubSeq(s, k + 1, Len(s))>>

\* image_stem.rsplit('_', 1)
RSplitStem(s) ==
    LET k == LastUnderscore(s, Len(s))
    IN  IF k = 0 THEN <<s>>
        ELSE <<SubSeq(s, 1, k - 1), SubSeq(s, k + 1, Len(s))>>

\* len(parts) == 2 and parts[1] in ('V', 'H')
HasOrientation(parts) == Len(parts) = 2 /\ parts[2] \in {<<"V">>, <<"H">>}

\* a side of a group that no stem has filled
NoSide == [present |-> FALSE, X |-> 0, Y |-> 0]

\* paired_data.setdefault(base, {})[orientation] = slot
SetSide(paired, base, orientation, slot) ==
    IF \E i \in 1..Len(paired) : paired[i].base = base
    THEN LET i == CHOOSE i \in 1..Len(paired) : paired[i].base = base
         IN  IF orientation = <<"V">>
             THEN [paired EXCEPT ![i].V = slot]
             ELSE [paired EXCEPT ![i].H = slot]
    ELSE Append(paired,
                IF orientation = <<"V">>
                THEN [base |-> base, V |-> slot, H |-> NoSide]
                ELSE [base |-> base, V |-> NoSide, H |-> slot])

\* the loop of save_to_csv.py:24-35 over the entries that remain
RECURSIVE GroupEntries(_, _, _)
GroupEntries(entries, paired, h) ==
    IF entries = <<>> THEN [paired |-> paired, heap |-> h]
    ELSE LET e     == Head(entries)
             parts == RSplitStem(e.stem)
         IN  IF HasOrientation(parts)
             THEN LET ex   == ensure_list(h, e.X)
                      ey   == ensure_list(ex.heap, e.Y)
                      slot == [present |-> TRUE, X |-> ex.ref, Y |-> ey.ref]
                  IN  GroupEntries(Tail(entries),
                                   SetSide(paired, parts[1], parts[2], slot),
                                   ey.heap)
             ELSE GroupEntries(Tail(entries), paired, h)

----------------------------------------------------------------------------
(* save_to_csv.py:37-78, the rows *)

\* the reserved V-side columns of a block (save_to_csv.py:62, :67, :74)
Slots == 7

RefX == <<"R", "e", "f", " ", "X", ":">>

RefY == <<"R", "e", "f", " ", "Y", ":">>

SummaryHeader ==
    << <<"B", "a", "s", "e">>,
       <<"V", " ", "I", "m", "a", "g", "e">>,
       <<"H", " ", "I", "m", "a", "g", "e">> >>

\* f"{base}_V", f"{base}_H"
StemV(base) == base \o <<"_", "V">>

StemH(base) == base \o <<"_", "H">>

\* save_to_csv.py:43-45
SummaryRow(g) ==
    << g.base,
       IF g.V.present THEN StemV(g.base) ELSE <<>>,
       IF g.H.present THEN StemH(g.base) ELSE <<>> >>

\* save_to_csv.py:41-46
SummaryRows(paired) ==
    <<SummaryHeader>> \o [i \in 1..Len(paired) |-> SummaryRow(paired[i])] \o << <<>> >>

\* save_to_csv.py:62
HeaderRow(base) == <<StemV(base)>> \o Blanks(Slots) \o <<StemH(base)>>

\* save_to_csv.py:65-69 and :72-76
DataRow(label, v, h) == <<label>> \o v \o Blanks(Slots - Len(v)) \o <<label>> \o h

\* the rows of a group without the spacer row of save_to_csv.py:78
BlockRowsNoSpacer(base, h, vd, hd) ==
    << HeaderRow(base),
       DataRow(RefX, h[vd.X], h[hd.X]),
       DataRow(RefY, h[vd.Y], h[hd.Y]) >>

\* the four rows of a group, from the padded lists
BlockRows(base, h, vd, hd) ==
    << HeaderRow(base),
       DataRow(RefX, h[vd.X], h[hd.X]),
       DataRow(RefY, h[vd.Y], h[hd.Y]),
       <<>> >>

----------------------------------------------------------------------------
(* The file system under the destination *)

\* os.path.dirname(output_filename)
DirName(path) == SubSeq(path, 1, Len(path) - 1)

\* the directories os.makedirs(d) makes sure of
DirsOf(d) == {SubSeq(d, 1, k) : k \in 1..Len(d)}

NoFile == [exists |-> FALSE, rows |-> <<>>]

\* a volume that takes every write
HealthyEnv == [writable |-> TRUE, limited |-> FALSE, quota |-> 0]

\* rows of `rows` the volume still accepts behind the rows of file f
Accepted(f, rows, env) ==
    IF env.limited
    THEN MinOf(Len(rows), MaxOf(0, env.quota - Len(f.rows)))
    ELSE Len(rows)

\* writer.writerow for each of rows; stops at the first write that fails
WriteRows(f, rows, env) ==
    [f EXCEPT !.rows = f.rows \o SubSeq(rows, 1, Accepted(f, rows, env))]

----------------------------------------------------------------------------
(* save_side_by_side_csv, statement by statement *)

\* save_to_csv.py:20
SaveMakedirs ==
    /\ spc = "makedirs"
    /\ LET d == DirName(output_filename)
       IN  IF d = <<>>
           THEN /\ exc' = "FileNotFoundError"
                /\ spc' = "raised"
                /\ UNCHANGED fs_dirs
           ELSE IF ~ fs_env.writable /\ ~ (DirsOf(d) \subseteq fs_dirs)
           THEN /\ exc' = "PermissionError"
                /\ spc' = "raised"
                /\ UNCHANGED fs_dirs
           ELSE /\ fs_dirs' = fs_dirs \cup DirsOf(d)
                /\ spc' = "group"
                /\ UNCHANGED exc
    /\ UNCHANGED <<heap, data_dict, output_filename, paired_data, v_data,
                   h_data, group_index, fs_file, fs_env>>
    /\ UNCHANGED <<cleanVars, pipeVars>>

\* save_to_csv.py:23-35
SaveGroup ==
    /\ spc = "group"
    /\ LET r == GroupEntries(data_dict, <<>>, heap)
       IN  /\ paired_data' = r.paired
           /\ heap' = r.heap
    /\ spc' = "open"
    /\ UNCHANGED <<data_dict, output_filename, v_data, h_data, group_index,
                   fs_dirs, fs_file, fs_env, exc>>
    /\ UNCHANGED <<cleanVars, pipeVars>>

\* save_to_csv.py:37
SaveOpen ==
    /\ spc = "open"
    /\ IF fs_env.writable
       THEN /\ fs_file' = [exists |-> TRUE, rows |-> <<>>]
            /\ spc' = "summary"
            /\ UNCHANGED exc
       ELSE /\ exc' = "PermissionError"
            /\ spc' = "raised"
            /\ UNCHANGED fs_file
    /\ UNCHANGED <<heap, data_dict, output_filename, paired_data, v_data,
                   h_data, group_index, fs_dirs, fs_env>>
    /\ UNCHANGED <<cleanVars, pipeVars>>

\* save_to_csv.py:41-46
SaveSummary ==
    /\ spc = "summary"
    /\ LET rows == SummaryRows(paired_data)
       IN  /\ fs_file' = WriteRows(fs_file, rows, fs_env)
           /\ IF Accepted(fs_file, rows, fs_env) = Len(rows)
              THEN spc' = "detail" /\ UNCHANGED exc
              ELSE spc' = "raised" /\ exc' = "OSError"
    /\ UNCHANGED <<heap, data_dict, output_filename, paired_data, v_data,
                   h_data, group_index, fs_dirs, fs_env>>
    /\ UNCHANGED <<cleanVars, pipeVars>>

\* save_to_csv.py:49-78, one pass of the loop
SaveDetail ==
    /\ spc = "detail"
    /\ group_index < Len(paired_data)
    /\ LET g   == paired_data[group_index + 1]
           \* pair.get('V', {'X': [], 'Y': []}), pair.get('H', ...)
           h0  == IF g.V.present THEN heap ELSE heap \o << <<>>, <<>> >>
           vd  == IF g.V.present THEN [X |-> g.V.X, Y |-> g.V.Y]
                  ELSE [X |-> Len(heap) + 1, Y |-> Len(heap) + 2]
           h1  == IF g.H.present THEN h0 ELSE h0 \o << <<>>, <<>> >>
           hd  == IF g.H.present THEN [X |-> g.H.X, Y |-> g.H.Y]
                  ELSE [X |-> Len(h0) + 1, Y |-> Len(h0) + 2]
           max_len_x == MaxOf(Len(h1[vd.X]), Len(h1[hd.X]))
           max_len_y == MaxOf(Len(h1[vd.Y]), Len(h1[hd.Y]))
           h2  == PadList(h1, vd.X, max_len_x - Len(h1[vd.X]))
           h3  == PadList(h2, hd.X, max_len_x - Len(h2[hd.X]))
           h4  == PadList(h3, vd.Y, max_len_y - Len(h3[vd.Y]))
           h5  == PadList(h4, hd.Y, max_len_y - Len(h4[hd.Y]))
           rows == BlockRows(g.base, h5, vd, hd)
       IN  /\ heap' = h5
           /\ v_data' = vd
           /\ h_data' = hd
           /\ fs_file' = WriteRows(fs_file, rows, fs_env)
           /\ IF Accepted(fs_file, rows, fs_env) = Len(rows)
              THEN /\ group_index' = group_index + 1
                   /\ UNCHANGED <<spc, exc>>
              ELSE /\ spc' = "raised"
                   /\ exc' = "OSError"
                   /\ UNCHANGED group_index
    /\ UNCHANGED <<data_dict, output_filename, paired_data, fs_dirs, fs_env>>
    /\ UNCHANGED <<cleanVars, pipeVars>>

\* leaving the with block of save_to_csv.py:37 after the last group
SaveReturn ==
    /\ spc = "detail"
    /\ group_index = Len(paired_data)
    /\ spc' = "returned"
    /\ UNCHANGED <<heap, data_dict, output_filename, paired_data, v_data,
                   h_data, group_index, fs_dirs, fs_file, fs_env, exc>>
    /\ UNCHANGED <<cleanVars, pipeVars>>

NextSave ==
    \/ SaveMakedirs
    \/ SaveGroup
    \/ SaveOpen
    \/ SaveSummary
    \/ SaveDetail
    \/ SaveReturn

NoData == [X |-> 0, Y |-> 0]

\* run_pipeline is not running
PipelineIdle ==
    /\ ppc = "idle"
    /\ image_files = <<>>
    /\ photo_index = 0

\* save_side_by_side_csv is not running
SaveIdle ==
    /\ spc = "idle"
    /\ heap = <<>>
    /\ data_dict = <<>>
    /\ output_filename = <<>>
    /\ paired_data = <<>>
    /\ v_data = NoData
    /\ h_data = NoData
    /\ group_index = 0
    /\ fs_dirs = {}
    /\ fs_file = NoFile
    /\ fs_env = HealthyEnv
    /\ exc = "none"

\* clean_text is not running
CleanIdle ==
    /\ cpc = "idle"
    /\ text_x = <<>>
    /\ text_y = <<>>
    /\ lines_y = <<>>
    /\ data_lines_y = <<>>
    /\ cleaned_text_y = <<>>
    /\ matches_y = <<>>
    /\ processed_y = <<>>
    /\ processed_x = <<>>

----------------------------------------------------------------------------
(* Arguments of a call of save_side_by_side_csv *)

BaseChars == {"A"}

Bases == SeqsUpTo(BaseChars, MaxBaseLen)

\* endings of a photo stem: none, '_' or ' ' before V or H, and the same
\* behind a base name that itself ends in '_H'
Suffixes ==
    { <<>>,
      <<"_", "V">>, <<"_", "H">>,
      <<" ", "V">>, <<" ", "H">>,
      <<"_", "H", "_", "V">>, <<"_", "H", "_", "H">> }

Stems == {b \o x : b \in Bases, x \in Suffixes} \ {<<>>}

\* a list longer than the reserved columns
LongList == [i \in 1..(Slots + 1) |-> <<DigitChar(i)>>]

\* cleaned values of a photo, as clean_text returns them
ValueOptions ==
    { [X |-> << <<"1", "0", "0">>, <<"2", "0", "0">> >>,
       Y |-> <<>>],
      [X |-> LongList,
       Y |-> << <<"-", "2", ".", "5">>, <<"2", ".", "5">> >>] }

\* result maps: up to MaxEntries photos with distinct stems, in any order
Choices ==
    {c \in SeqsUpTo(Stems \X ValueOptions, MaxEntries) :
        \A i, j \in 1..Len(c) : i # j => c[i][1] # c[j][1]}

\* every X and Y of a result map is a list object of its own
HeapOf(c) ==
    [r \in 1..(2 * Len(c)) |->
        IF r % 2 = 1 THEN c[(r + 1) \div 2][2].X ELSE c[r \div 2][2].Y]

DictOf(c) ==
    [i \in 1..Len(c) |->
        [stem |-> c[i][1], X |-> ListVal(2 * i - 1), Y |-> ListVal(2 * i)]]

\* the result map the file system cases are run with: two groups
ProbeChoice ==
    << << <<"A", "_", "V">>,
          [X |-> << <<"1", "0", "0">> >>, Y |-> << <<"1", ".", "5", "0", "0">> >>] >>,
       << <<"_", "H">>,
          [X |-> << <<"1", "0", "0">>, <<"2", "0", "0">> >>, Y |-> <<>>] >> >>

\* destinations: a bare file name, an existing parent, missing parents
Destinations ==
    { << "r.csv" >>,
      << "out", "r.csv" >>,
      << "new", "r.csv" >>,
      << "new", "sub", "r.csv" >> }

DefaultDestination == << "out", "r.csv" >>

\* the directories that exist before the call
InitialDirs == { << "out" >> }

\* the content of a file left at the destination by an earlier export
OldFile == [exists |-> TRUE, rows |-> << << <<"o", "l", "d">> >> >>]

\* a healthy volume, a read-only one, one that is full after q rows
Environments ==
    {HealthyEnv}
    \cup {[writable |-> FALSE, limited |-> FALSE, quota |-> 0]}
    \cup {[writable |-> TRUE, limited |-> TRUE, quota |-> q] : q \in 0..MaxQuota}

InitSave ==
    /\ CleanIdle
    /\ PipelineIdle
    /\ spc = "makedirs"
    /\ paired_data = <<>>
    /\ v_data = NoData
    /\ h_data = NoData
    /\ group_index = 0
    /\ exc = "none"
    /\ fs_dirs = InitialDirs
    /\ \E c \in Choices \cup {ProbeChoice}, d \in Destinations, e \in Environments, old \in BOOLEAN :
          /\ \/ c = ProbeChoice
             \/ d = DefaultDestination /\ e = HealthyEnv /\ ~ old
          /\ old => (DirName(d) = <<>> \/ DirName(d) \in InitialDirs)
          /\ heap = HeapOf(c)
          /\ data_dict = DictOf(c)
          /\ output_filename = d
          /\ fs_env = e
          /\ fs_file = IF old THEN OldFile ELSE NoFile

SpecSave == InitSave /\ [][NextSave]_vars

----------------------------------------------------------------------------
(* run_pipeline (streamlit_app.py:115-170, main.py:35-65) *)

\* What a photo of the batch is to the libraries that read it:
\*   "ok"        it decodes and both regions are recognised
\*   "corrupt"   it does not decode: cv2.imread returns None, PIL raises
\*   "ocr_fails" it decodes, and the ROI preprocessing or the recogniser raises
PhotoKinds == {"ok", "corrupt", "ocr_fails"}

\* extensions of the batch; process_images blackens ".png" and passes over
\* ".tif" (folder_importer.py:49)
PhotoExts == {".png", ".tif"}

Blackened(ext) == ext = ".png"

PhotoStems == { <<"A", "_", "V">>, <<"A", "_", "H">> }

\* the texts the recogniser returns for the two regions of a photo
PhotoTexts ==
    { [x |-> JoinLines(<< <<"1", "2", ".", "5">>, <<"3", ".", "0">> >>),
       y |-> JoinLines(<< <<"H">>, <<"H">>, <<"=", "1", ".", "2", "3", "0">>,
                          <<"4", ".", "0", "0", "0">>,
                          <<"-", "2", ".", "5", "0", "0">> >>)],
      [x |-> JoinLines(<< <<"7", ".", "2", "5">> >>),
       y |-> <<>>] }

Photos ==
    [stem : PhotoStems, ext : PhotoExts, kind : PhotoKinds, text : PhotoTexts]

\* batches: up to MaxPhotos files with distinct names
Batches ==
    {b \in SeqsUpTo(Photos, MaxPhotos) :
        \A i, j \in 1..Len(b) :
            i # j => <<b[i].stem, b[i].ext>> # <<b[j].stem, b[j].ext>>}

\* output_folder and output_csv, relative to image_folder
OutputFolder == << "batch_output" >>

OutputCsv == << "batch_output", "batch.csv" >>

\* a volume that is full: no row can be written
FullEnv == [writable |-> TRUE, limited |-> TRUE, quota |-> 0]

\* ocr_results[stem] = {"X": x, "Y": y}
DictSet(d, stem, x, y) ==
    LET e == [stem |-> stem, X |-> ListVal(x), Y |-> ListVal(y)]
    IN  IF \E i \in 1..Len(d) : d[i].stem = stem
        THEN [i \in 1..Len(d) |-> IF d[i].stem = stem THEN e ELSE d[i]]
        ELSE Append(d, e)

Init ==
    /\ CleanIdle
    /\ ppc = "blacken"
    /\ image_files \in Batches
    /\ photo_index = 0
    /\ spc = "idle"
    /\ heap = <<>>
    /\ data_dict = <<>>
    /\ output_filename = <<>>
    /\ paired_data = <<>>
    /\ v_data = NoData
    /\ h_data = NoData
    /\ group_index = 0
    /\ fs_dirs = {}
    /\ fs_file = NoFile
    /\ fs_env \in {HealthyEnv, FullEnv}
    /\ exc = "none"

\* streamlit_app.py:134-141, process_images (folder_importer.py:25-86):
\* creates the output folder and opens every image it blackens
PipelineBlacken ==
    /\ ppc = "blacken"
    /\ fs_dirs' = fs_dirs \cup DirsOf(OutputFolder)
    /\ IF \E k \in 1..Len(image_files) :
             Blackened(image_files[k].ext) /\ image_files[k].kind = "corrupt"
       THEN ppc' = "raised" /\ exc' = "UnidentifiedImageError"
       ELSE ppc' = "loop" /\ UNCHANGED exc
    /\ UNCHANGED <<spc, heap, data_dict, output_filename, paired_data, v_data,
                   h_data, group_index, fs_file, fs_env>>
    /\ UNCHANGED <<image_files, photo_index>>
    /\ UNCHANGED cleanVars

\* streamlit_app.py:145-153, one pass of the loop
PipelinePhoto ==
    /\ ppc = "loop"
    /\ photo_index < Len(image_files)
    /\ LET p == image_files[photo_index + 1]
       IN  IF p.kind = "corrupt"
           THEN \* img is None: continue
                /\ photo_index' = photo_index + 1
                /\ UNCHANGED <<ppc, exc, heap, data_dict>>
           ELSE IF p.kind = "ocr_fails"
           THEN \* process_roi_x, process_roi_y or extract_from_image raises
                /\ ppc' = "raised"
                /\ exc' = "RecognitionError"
                /\ UNCHANGED <<photo_index, heap, data_dict>>
           ELSE /\ heap' = heap \o <<CleanX(ExtractProcess(p.text.x)),
                                     CleanY(ExtractProcess(p.text.y))>>
                /\ data_dict' = DictSet(data_dict, p.stem, Len(heap) + 1, Len(heap) + 2)
                /\ photo_index' = photo_index + 1
                /\ UNCHANGED <<ppc, exc>>
    /\ UNCHANGED <<spc, output_filename, paired_data, v_data, h_data,
                   group_index, fs_dirs, fs_file, fs_env>>
    /\ UNCHANGED image_files
    /\ UNCHANGED cleanVars

\* streamlit_app.py:156-168: the output folder, then the call of
\* save_side_by_side_csv(ocr_results, output_csv)
PipelineExport ==
    /\ ppc = "loop"
    /\ photo_index = Len(image_files)
    /\ fs_dirs' = fs_dirs \cup DirsOf(OutputFolder)
    /\ output_filename' = OutputCsv
    /\ spc' = "makedirs"
    /\ ppc' = "export"
    /\ UNCHANGED <<heap, data_dict, paired_data, v_data, h_data, group_index,
                   fs_file, fs_env, exc>>
    /\ UNCHANGED <<image_files, photo_index>>
    /\ UNCHANGED cleanVars

\* streamlit_app.py:170
PipelineReturn ==
    /\ ppc = "export"
    /\ spc = "returned"
    /\ ppc' = "returned"
    /\ UNCHANGED <<image_files, photo_index>>
    /\ UNCHANGED saveVars
    /\ UNCHANGED cleanVars

\* an exception of save_side_by_side_csv leaves run_pipeline
PipelineExportRaised ==
    /\ ppc = "export"
    /\ spc = "raised"
    /\ ppc' = "raised"
    /\ UNCHANGED <<image_files, photo_index>>
    /\ UNCHANGED saveVars
    /\ UNCHANGED cleanVars

NextPipeline ==
    \/ PipelineBlacken
    \/ PipelinePhoto
    \/ PipelineExport
    \/ PipelineReturn
    \/ PipelineExportRaised

Next == NextPipeline \/ NextSave

Spec == Init /\ [][Next]_vars

----------------------------------------------------------------------------
(* clean_text, statement by statement *)

InitClean ==
    /\ cpc = "start"
    /\ \/ text_x \in XTexts /\ text_y = <<>>
       \/ text_x = <<>> /\ text_y \in YTexts
    /\ lines_y = <<>>
    /\ data_lines_y = <<>>
    /\ cleaned_text_y = <<>>
    /\ matches_y = <<>>
    /\ processed_y = <<>>
    /\ processed_x = <<>>
    /\ SaveIdle
    /\ PipelineIdle

\* text_cleaner.py:20-22
CleanDropHeader ==
    /\ cpc = "start"
    /\ lines_y' = SplitLines(Strip(text_y))
    /\ data_lines_y' = DataLines(lines_y')
    /\ cleaned_text_y' = JoinLines(data_lines_y')
    /\ cpc' = "header_dropped"
    /\ UNCHANGED <<text_x, text_y, matches_y, processed_y, processed_x>>
    /\ UNCHANGED <<saveVars, pipeVars>>

\* text_cleaner.py:25
CleanSubEquals ==
    /\ cpc = "header_dropped"
    /\ cleaned_text_y' = SubEquals(cleaned_text_y)
    /\ cpc' = "sign_corrected"
    /\ UNCHANGED <<text_x, text_y, lines_y, data_lines_y, matches_y,
                   processed_y, processed_x>>
    /\ UNCHANGED <<saveVars, pipeVars>>

\* text_cleaner.py:28-32
CleanExtractY ==
    /\ cpc = "sign_corrected"
    /\ matches_y' = FindAllY(cleaned_text_y)
    /\ IF SelectRaises(matches_y') = "none"
       THEN /\ processed_y' = SelectTokens(matches_y')
            /\ cpc' = "y_done"
            /\ UNCHANGED exc
       ELSE /\ cpc' = "raised"
            /\ exc' = SelectRaises(matches_y')
            /\ UNCHANGED processed_y
    /\ UNCHANGED <<text_x, text_y, lines_y, data_lines_y, cleaned_text_y,
                   processed_x>>
    /\ UNCHANGED <<spc, heap, data_dict, output_filename, paired_data, v_data,
                   h_data, group_index, fs_dirs, fs_file, fs_env>>
    /\ UNCHANGED pipeVars

\* text_cleaner.py:35-51
CleanExtractX ==
    /\ cpc = "y_done"
    /\ processed_x' = CleanX(text_x)
    /\ cpc' = "returned"
    /\ UNCHANGED <<text_x, text_y, lines_y, data_lines_y, cleaned_text_y,
                   matches_y, processed_y>>
    /\ UNCHANGED <<saveVars, pipeVars>>

NextClean ==
    \/ CleanDropHeader
    \/ CleanSubEquals
    \/ CleanExtractY
    \/ CleanExtractX

SpecClean == InitClean /\ [][NextClean]_vars

----------------------------------------------------------------------------
(* Claims about save_side_by_side_csv *)

Rows == fs_file.rows

Grouped == spc \in {"open", "summary", "detail", "returned"}

EndsWith(s, t) == Len(s) >= Len(t) /\ SubSeq(s, Len(s) - Len(t) + 1, Len(s)) = t

\* the entries i and j of the result map are the V and the H photo of base b
\* and sit in the V slot and the H slot of one group named b
InOneGroup(i, j, b) ==
    \E g \in 1..Len(paired_data) :
        /\ paired_data[g].base = b
        /\ paired_data[g].V.present
        /\ paired_data[g].V.X = data_dict[i].X.ref
        /\ paired_data[g].V.Y = data_dict[i].Y.ref
        /\ paired_data[g].H.present
        /\ paired_data[g].H.X = data_dict[j].X.ref
        /\ paired_data[g].H.Y = data_dict[j].Y.ref

\* the file holds the X row and the Y row of the photos i and j
Rendered(i, j) ==
    /\ \E k \in 1..Len(Rows) :
          Rows[k] = DataRow(RefX, heap[data_dict[i].X.ref], heap[data_dict[j].X.ref])
    /\ \E k \in 1..Len(Rows) :
          Rows[k] = DataRow(RefY, heap[data_dict[i].Y.ref], heap[data_dict[j].Y.ref])

\* stems b+sep+"V" and b+sep+"H" of the result map end up in one group b,
\* which the written file renders
PairGrouped(sep) ==
    \A i, j \in 1..Len(data_dict) :
        LET si == data_dict[i].stem
            b  == SubSeq(si, 1, Len(si) - 2)
        IN  (EndsWith(si, <<sep, "V">>) /\ data_dict[j].stem = b \o <<sep, "H">>)
            => /\ Grouped => InOneGroup(i, j, b)
               /\ spc = "returned" => Rendered(i, j)

\* the result map holds a V and an H photo of one base, with separator sep
HasPair(sep) ==
    \E i, j \in 1..Len(data_dict) :
        /\ EndsWith(data_dict[i].stem, <<sep, "V">>)
        /\ data_dict[j].stem =
               SubSeq(data_dict[i].stem, 1, Len(data_dict[i].stem) - 2) \o <<sep, "H">>

\* C1 as stated: for every base name b, the stems "b V" and "b H" (a space
\* before the orientation letter) end up in one group named b, the first in
\* the V slot and the second in the H slot, and the group is rendered.
C1_SpaceSuffixGrouped == PairGrouped(" ")

\* C1 amended: for every base name b, the stems "b_V" and "b_H" (an
\* underscore before the orientation letter) end up in one group named b, the
\* first in the V slot and the second in the H slot, and the group is rendered.
C1_UnderscoreSuffixGrouped == PairGrouped("_")

C1_Witness == spc = "returned" /\ HasPair("_")

\* p is s followed only by empty strings
IsPaddingOf(p, s) ==
    /\ Len(p) >= Len(s)
    /\ SubSeq(p, 1, Len(s)) = s
    /\ \A k \in (Len(s) + 1)..Len(p) : p[k] = <<>>

\* the list a side of group g holds before the group is rendered; a missing
\* side starts as empty X and Y sequences
SideX(side) == IF side.present THEN heap[side.X] ELSE <<>>

SideY(side) == IF side.present THEN heap[side.Y] ELSE <<>>

\* C2: in every pass of the detail loop, also for a group with one side
\* missing, the padded V.X and H.X both have the length of the longer of the
\* two X sequences, the padded V.Y and H.Y that of the longer Y sequence, and
\* each padded sequence is the sequence the side held before followed only by
\* empty strings.
C2_PaddingInvariant ==
    [][(spc = "detail" /\ group_index < Len(paired_data)) =>
         LET g  == paired_data[group_index + 1]
             vx == SideX(g.V)
             hx == SideX(g.H)
             vy == SideY(g.V)
             hy == SideY(g.H)
         IN  /\ Len(heap'[v_data'.X]) = MaxOf(Len(vx), Len(hx))
             /\ Len(heap'[h_data'.X]) = MaxOf(Len(vx), Len(hx))
             /\ Len(heap'[v_data'.Y]) = MaxOf(Len(vy), Len(hy))
             /\ Len(heap'[h_data'.Y]) = MaxOf(Len(vy), Len(hy))
             /\ IsPaddingOf(heap'[v_data'.X], vx)
             /\ IsPaddingOf(heap'[h_data'.X], hx)
             /\ IsPaddingOf(heap'[v_data'.Y], vy)
             /\ IsPaddingOf(heap'[h_data'.Y], hy)]_vars

\* a group with only its V side has been rendered, its H side padded from
\* nothing to the V side's length
C2_Witness ==
    /\ spc \in {"detail", "returned"}
    /\ group_index >= 1
    /\ paired_data[group_index].V.present
    /\ ~ paired_data[group_index].H.present
    /\ Len(heap[h_data.X]) = Len(heap[v_data.X])
    /\ Len(heap[v_data.X]) > 0
    /\ IsPaddingOf(heap[h_data.X], <<>>)

\* C3: no step of save_side_by_side_csv changes an X or Y sequence stored in
\* the caller's data_dict.
C3_CallerDataUntouched ==
    [][\A i \in 1..Len(data_dict) :
          /\ heap'[data_dict[i].X.ref] = heap[data_dict[i].X.ref]
          /\ heap'[data_dict[i].Y.ref] = heap[data_dict[i].Y.ref]]_vars

NumGroups == Len(paired_data)

\* rows k+1..k+4 of the file are the block of group g: header row, "Ref X:"
\* row, "Ref Y:" row, empty row
IsBlockAt(k, g) ==
    /\ Len(Rows) >= k + 4
    /\ Len(Rows[k + 1]) >= 2
    /\ Rows[k + 1][1] = StemV(paired_data[g].base)
    /\ Rows[k + 1][Len(Rows[k + 1])] = StemH(paired_data[g].base)
    /\ Len(Rows[k + 2]) >= 1 /\ Rows[k + 2][1] = RefX
    /\ Len(Rows[k + 3]) >= 1 /\ Rows[k + 3][1] = RefY
    /\ Rows[k + 4] = <<>>

\* C4 as stated: the rows written are exactly one block of four rows per
\* group and nothing else, 4*n rows for n groups.
C4_OnlyBlocks ==
    spc = "returned" =>
        /\ Len(Rows) = 4 * NumGroups
        /\ \A g \in 1..NumGroups : IsBlockAt(4 * (g - 1), g)

\* C4 amended: the rows written are a summary section (the row "Base",
\* "V Image", "H Image", one row of three cells per group starting with its
\* base name, one empty row) followed by one block of four rows per group and
\* nothing else, 5*n + 2 rows for n groups.
C4_SummaryThenBlocks ==
    spc = "returned" =>
        /\ Len(Rows) = 5 * NumGroups + 2
        /\ Rows[1] = SummaryHeader
        /\ \A g \in 1..NumGroups :
              Len(Rows[1 + g]) = 3 /\ Rows[1 + g][1] = paired_data[g].base
        /\ Rows[NumGroups + 2] = <<>>
        /\ \A g \in 1..NumGroups : IsBlockAt(NumGroups + 2 + 4 * (g - 1), g)

C4_Witness == spc = "returned" /\ NumGroups = 2 /\ Len(Rows) = 12

\* C5: in every block and for any number of values per side, the second
\* label cell of the X row and of the Y row sits at the column of the H-side
\* label of the header row, behind the V block's reserved columns.
C5_LabelColumnsAligned ==
    spc = "returned" =>
        \A g \in 1..NumGroups :
            LET k  == NumGroups + 2 + 4 * (g - 1)
                hc == Len(Rows[k + 1])
            IN  /\ Rows[k + 1][hc] = StemH(paired_data[g].base)
                /\ Len(Rows[k + 2]) >= hc /\ Rows[k + 2][hc] = RefX
                /\ Len(Rows[k + 3]) >= hc /\ Rows[k + 3][hc] = RefY

\* C7: when the export has failed, the destination holds no file or its
\* complete previous content.
C7_AtomicExport ==
    spc = "raised" => (fs_file = NoFile \/ fs_file = OldFile)

\* C8: on a volume that takes every write, the export of any destination,
\* with a missing parent, an existing parent or no directory component,
\* raises nothing, creates the parent directories and writes the file.
C8_ParentCreated ==
    fs_env = HealthyEnv =>
        /\ spc # "raised"
        /\ Grouped => DirsOf(DirName(output_filename)) \subseteq fs_dirs
        /\ spc = "returned" => fs_file.exists

----------------------------------------------------------------------------
(* Claims about run_pipeline *)

\* the exceptions a single photo's processing raises
PhotoExceptions == {"UnidentifiedImageError", "RecognitionError"}

\* C6: a photo whose processing fails (it cannot be decoded, or the ROI
\* preprocessing or the recogniser raises) never makes run_pipeline raise;
\* the loop takes every photo of the batch, every photo that is processed
\* is recorded, and the export runs over the results.
C6_PhotoFailureIsolated ==
    /\ exc \notin PhotoExceptions
    /\ ppc \in {"export", "returned"} =>
          /\ photo_index = Len(image_files)
          /\ \A k \in 1..Len(image_files) :
                image_files[k].kind = "ok" =>
                    \E i \in 1..Len(data_dict) : data_dict[i].stem = image_files[k].stem
    /\ ppc = "returned" => fs_file.exists

\* the photos of the batch that were decoded and processed
Processed == {k \in 1..Len(image_files) : image_files[k].kind = "ok"}

\* the values clean_text returned for photo k
OwnX(k) == CleanX(ExtractProcess(image_files[k].text.x))

OwnY(k) == CleanY(ExtractProcess(image_files[k].text.y))

\* a side of a group holds the values of photo k (followed by the
\* placeholders of the padding, if any)
HoldsValuesOf(side, k) ==
    /\ side.present
    /\ IsPaddingOf(heap[side.X], OwnX(k))
    /\ IsPaddingOf(heap[side.Y], OwnY(k))

\* C13: once run_pipeline has taken every photo of the batch, the result map
\* has as many entries as photos were processed, every processed photo has
\* an entry under its stem with its own values, and once the groups are
\* formed the slot of its orientation holds these values; also when two
\* photos of the batch have the same stem.
C13_NoResultOverwritten ==
    ppc \in {"export", "returned"} =>
        /\ Len(data_dict) = Cardinality(Processed)
        /\ \A k \in Processed :
              /\ \E i \in 1..Len(data_dict) :
                    /\ data_dict[i].stem = image_files[k].stem
                    /\ IsPaddingOf(heap[data_dict[i].X.ref], OwnX(k))
                    /\ IsPaddingOf(heap[data_dict[i].Y.ref], OwnY(k))
              /\ Grouped =>
                    \E g \in 1..Len(paired_data) :
                        LET parts == RSplitStem(image_files[k].stem)
                        IN  /\ paired_data[g].base = parts[1]
                            /\ HoldsValuesOf(IF parts[2] = <<"V">>
                                             THEN paired_data[g].V
                                             ELSE paired_data[g].H, k)

----------------------------------------------------------------------------
(* Claims about clean_text *)

\* the lines of a text from the third on
AfterHeader(ty) == SubSeq(SplitLines(ty), 3, Len(SplitLines(ty)))

\* C9: for every y_text, whatever its number of lines, clean_text discards
\* the first two lines of y_text: the data lines are the lines from the third
\* on, and the returned Y tokens are those of these lines alone.
C9_HeaderAlwaysDropped ==
    /\ cpc # "start" => data_lines_y = AfterHeader(text_y)
    /\ cpc \in {"y_done", "returned"} =>
           processed_y = SelectTokens(FindAllY(SubEquals(JoinLines(AfterHeader(text_y)))))

\* a text with the '=' that is the first character of a line replaced by '-'
\* and every other character left in place
LeadingEqualsToMinus(s) ==
    [i \in 1..Len(s) |-> IF s[i] = "=" /\ AtLineStart(s, i) THEN "-" ELSE s[i]]

\* C10: in the text remaining after the header drop, clean_text replaces the
\* leading '=' of a line by '-' and changes nothing else: no other character,
\* white space or line break is removed or merged.
C10_OnlyLeadingEqualsReplaced ==
    cpc \in {"sign_corrected", "y_done", "returned"} =>
        cleaned_text_y = LeadingEqualsToMinus(JoinLines(data_lines_y))

\* a string that is an optional '-', digits, '.', digits
IsYToken(t) ==
    LET d == IF t # <<>> /\ t[1] = "-" THEN 2 ELSE 1
    IN  \E p \in (d + 1)..(Len(t) - 1) :
            /\ t[p] = "."
            /\ \A q \in d..Len(t) : q # p => IsDigit(t[q])

\* the positions of s where such a substring begins
YStarts(s) == {i \in 1..Len(s) : \E e \in i..Len(s) : IsYToken(SubSeq(s, i, e))}

\* the last position of the longest such substring beginning at i
YEnd(s, i) ==
    CHOOSE e \in i..Len(s) :
        /\ IsYToken(SubSeq(s, i, e))
        /\ \A f \in (e + 1)..Len(s) : ~IsYToken(SubSeq(s, i, f))

\* the occurrences read from left to right: no two overlap, and a position
\* where a token begins is an occurrence unless an earlier occurrence covers it
YOccurrences(s) ==
    CHOOSE T \in SUBSET YStarts(s) :
        /\ \A i, j \in T : i < j => YEnd(s, i) < j
        /\ \A i \in YStarts(s) \ T : \E j \in T : j < i /\ i <= YEnd(s, j)

\* every fractional digit of the token is '0'
AllZeroFraction(t) == \A k \in (DotIndex(t, 1) + 1)..Len(t) : t[k] = "0"

\* C11: clean_text never raises, and the Y sequence it returns is, in order
\* of occurrence in the corrected text, every substring that is an optional
\* '-', digits, '.', digits, except those whose fractional digits are all
\* zero; each kept token is the substring itself, character for character,
\* as often as it occurs (a text without such a substring gives <<>>).
C11_YTokenFilter ==
    /\ cpc # "raised"
    /\ exc = "none"
    /\ cpc \in {"y_done", "returned"} =>
          LET s == cleaned_text_y
              K == {i \in YOccurrences(s) : ~AllZeroFraction(SubSeq(s, i, YEnd(s, i)))}
          IN  /\ Len(processed_y) = Cardinality(K)
              /\ \A i \in K :
                    processed_y[Cardinality({j \in K : j < i}) + 1] =
                        SubSeq(s, i, YEnd(s, i))

\* a returned call that dropped a token and kept one that ends in a zero
C11_Witness ==
    /\ cpc = "returned"
    /\ Len(matches_y) > Len(processed_y)
    /\ \E i \in 1..Len(processed_y) : processed_y[i][Len(processed_y[i])] = "0"

\* a string that is digits, or digits, '.', digits
IsXNumber(t) ==
    /\ t # <<>>
    /\ \/ \A q \in 1..Len(t) : IsDigit(t[q])
       \/ \E p \in 2..(Len(t) - 1) :
              /\ t[p] = "."
              /\ \A q \in 1..Len(t) : q # p => IsDigit(t[q])

\* the length of the longest number a line begins with (0 when it begins
\* with none)
LeadingNumberLen(line) ==
    LET L == {k \in 1..Len(line) : IsXNumber(SubSeq(line, 1, k))}
    IN  IF L = {} THEN 0 ELSE CHOOSE k \in L : \A j \in L : j <= k

\* the digits of a number without its point, and the count of its
\* fractional digits
UnscaledDigits(t) == SelectSeq(t, IsDigit)

FractionLen(t) == IF DotIndex(t, 1) > Len(t) THEN 0 ELSE Len(t) - DotIndex(t, 1)

\* token t is 1000 times the number num, to 3 decimal digits (the nearest
\* such value when num has more than 6 fractional digits)
IsTimes1000(t, num) ==
    LET M == DigitsToInt(UnscaledDigits(t))
        j == FractionLen(t)
        N == DigitsToInt(UnscaledDigits(num))
        k == FractionLen(num)
        d == M * Pow10(3 - j) * Pow10(IF k > 6 THEN k - 6 ELSE 0)
             - N * Pow10(IF k > 6 THEN 0 ELSE 6 - k)
    IN  /\ j <= 3
        /\ IF k <= 6 THEN d = 0
           ELSE 2 * d <= Pow10(k - 6) /\ 2 * d >= 0 - Pow10(k - 6)

\* C12: the X sequence clean_text returns has one token for each line of
\* x_text that begins with an unsigned integer or decimal number, in the
\* order of the lines, and none for any other line; the token is that number
\* times 1000 to 3 decimal digits, written as digits with an optional
\* fractional part that does not end in '0'.
C12_XNormalization ==
    cpc = "returned" =>
        LET ls == SplitLines(text_x)
            N  == {n \in 1..Len(ls) : LeadingNumberLen(ls[n]) > 0}
        IN  /\ Len(processed_x) = Cardinality(N)
            /\ \A n \in N :
                  LET t == processed_x[Cardinality({m \in N : m < n}) + 1]
                  IN  /\ IsXNumber(t)
                      /\ FractionLen(t) > 0 => t[Len(t)] # "0"
                      /\ IsTimes1000(t, SubSeq(ls[n], 1, LeadingNumberLen(ls[n])))

\* a returned call that passed over a line between two lines it took a
\* token from, one of the tokens with a fractional part
C12_Witness ==
    /\ cpc = "returned"
    /\ Len(SplitLines(text_x)) = 3
    /\ LeadingNumberLen(SplitLines(text_x)[2]) = 0
    /\ Len(processed_x) = 2
    /\ \E i \in 1..2 : FractionLen(processed_x[i]) > 0

====
